---- MODULE Spec2Model ----
(***************************************************************************)
(* A model of the EllipticCurve crate: arithmetic in a prime field         *)
(* (finite_field.rs), the group law of a short Weierstrass curve           *)
(* (elliptic_curve.rs) and ECDSA on top of it (ecdsa.rs).                  *)
(*                                                                         *)
(* The crate is a library of pure functions over immutable values, so the  *)
(* state of the model is one call: the arguments the caller holds (args,   *)
(* drawn by Init), the operation applied to them (op, "none" before the    *)
(* call), the values the call drew from OsRng (rng) and its outcome (res). *)
(* Where the calls a function makes matter (the divisions of add, the      *)
(* recursion of scalar_mul) the call is run step by step: stack holds the  *)
(* frames of the calls in progress and calls the calls of add and of       *)
(* FiniteField::div made so far.                                           *)
(* An outcome is Ok(value), Err(message) (the Result the function          *)
(* returns) or Panic(message) (the thread aborts, as a failed assert!, an  *)
(* expect on an Err or an unsigned underflow does).                        *)
(***************************************************************************)
EXTENDS Integers, Naturals, Sequences, FiniteSets, TLC

VARIABLES op, args, rng, res, stack, calls

vars == <<op, args, rng, res, stack, calls>>

(***************************************************************************)
(* Bounds of the model.                                                    *)
(***************************************************************************)
\* field moduli 1..MaxModulus are explored by the field-layer specification
MaxModulus == 11
\* raw integers handed to FiniteField::new range over 0..MaxRaw
MaxRaw == 12

(***************************************************************************)
(* Outcomes.                                                               *)
(***************************************************************************)
Ok(v) == [tag |-> "Ok", val |-> v]
Err(m) == [tag |-> "Err", val |-> m]
Panic(m) == [tag |-> "Panic", val |-> m]

ErrFieldMismatch == "Operands must be from the same field (p should be the same)"
ErrDivideByZero == "Cannot divide by zero"
PanicNotLessThanP == "Value should be less than p"
PanicUnderflow == "attempt to subtract with overflow"

(***************************************************************************)
(* finite_field.rs                                                         *)
(***************************************************************************)
\* struct FiniteField { value, p }
FiniteField(value, p) == [value |-> value, p |-> p]

\* FiniteField::new: the assert! aborts unless value < p
FiniteField_new(value, p) ==
    IF value < p THEN Ok(FiniteField(value % p, p))
    ELSE Panic(PanicNotLessThanP)

get_value(self) == self.value

\* the ? operator, and the unwinding of a panic: a result that is not Ok
\* ends the function with that result, an Ok hands its value to the rest
Try(result, rest(_)) ==
    CHOOSE out \in {IF r.tag # "Ok" THEN r ELSE rest(r.val) : r \in {result}} : TRUE

\* let name = value; rest
Let(value, rest(_)) ==
    CHOOSE out \in {rest(v) : v \in {value}} : TRUE

\* BigUint subtraction: unsigned, aborts when the result would be negative
BigUint_sub(x, y) == IF x >= y THEN Ok(x - y) ELSE Panic(PanicUnderflow)

\* BigUint::modpow(exponent, modulus): square and multiply
RECURSIVE modpow(_, _, _)
modpow(base, exponent, modulus) ==
    IF exponent = 0 THEN 1 % modulus
    ELSE Let(modpow(base, exponent \div 2, modulus), LAMBDA half :
         Let((half * half) % modulus, LAMBDA sq :
         IF exponent % 2 = 1 THEN (sq * base) % modulus ELSE sq))

FiniteField_add(self, other) ==
    IF self.p # other.p THEN Err(ErrFieldMismatch)
    ELSE Ok(FiniteField((self.value + other.value) % self.p, self.p))

\* a sub that forgets to add p before subtracting
FiniteField_sub_without_p(self, other) ==
    IF self.p # other.p THEN Err(ErrFieldMismatch)
    ELSE Try(BigUint_sub(self.value, other.value), LAMBDA d :
         Ok(FiniteField(d % self.p, self.p)))

FiniteField_sub(self, other) ==
    IF self.p # other.p THEN Err(ErrFieldMismatch)
    ELSE Try(BigUint_sub(self.value + self.p, other.value), LAMBDA d :
         Ok(FiniteField(d % self.p, self.p)))

FiniteField_mul(self, other) ==
    IF self.p # other.p THEN Err(ErrFieldMismatch)
    ELSE Ok(FiniteField((self.value * other.value) % self.p, self.p))

\* a div that raises the divisor to p - 1 instead of p - 2
FiniteField_div_exponent_p_minus_1(self, other) ==
    IF self.p # other.p THEN Err(ErrFieldMismatch)
    ELSE IF other.value = 0 THEN Err(ErrDivideByZero)
    ELSE Try(BigUint_sub(self.p, 1), LAMBDA exponent :
         Ok(FiniteField((self.value * modpow(other.value, exponent, self.p)) % self.p,
                        self.p)))

\* a div that tests the divisor for zero before it compares the moduli
FiniteField_div_zero_test_first(self, other) ==
    IF other.value = 0 THEN Err(ErrDivideByZero)
    ELSE IF self.p # other.p THEN Err(ErrFieldMismatch)
    ELSE Try(BigUint_sub(self.p, 2), LAMBDA exponent :
         Ok(FiniteField((self.value * modpow(other.value, exponent, self.p)) % self.p,
                        self.p)))

\* a div without the test for a zero divisor
FiniteField_div_no_zero_test(self, other) ==
    IF self.p # other.p THEN Err(ErrFieldMismatch)
    ELSE Try(BigUint_sub(self.p, 2), LAMBDA exponent :
         Ok(FiniteField((self.value * modpow(other.value, exponent, self.p)) % self.p,
                        self.p)))

FiniteField_div(self, other) ==
    IF self.p # other.p THEN Err(ErrFieldMismatch)
    ELSE IF other.value = 0 THEN Err(ErrDivideByZero)
    ELSE Try(BigUint_sub(self.p, 2), LAMBDA exponent :
         Ok(FiniteField((self.value * modpow(other.value, exponent, self.p)) % self.p,
                        self.p)))

(***************************************************************************)
(* The field-layer specification: every call of new, add, sub, mul and div *)
(* on raw integers 0..MaxRaw and on field elements over moduli             *)
(* 1..MaxModulus.  Field elements are those FiniteField::new constructs:   *)
(* 0 <= value < p.                                                         *)
(***************************************************************************)
Moduli == 1..MaxModulus

FieldElems == UNION {{FiniteField(v, p) : v \in 0..(p - 1)} : p \in Moduli}

NoResult == [tag |-> "None", val |-> "None"]

InitFF ==
    /\ op = "none"
    /\ rng = <<>>
    /\ res = NoResult
    /\ stack = <<>>
    /\ calls = <<>>
    /\ \/ args \in {[kind |-> "raw", value |-> v, p |-> p] :
                       v \in 0..MaxRaw, p \in Moduli}
       \/ args \in {[kind |-> "elems", self |-> a, other |-> b] :
                       a \in FieldElems, b \in FieldElems}

\* the call `name` on the arguments in hand ends with `outcome`
Call(name, outcome) ==
    /\ op = "none"
    /\ op' = name
    /\ res' = outcome
    /\ UNCHANGED <<args, rng, stack, calls>>

FFNew ==
    /\ args.kind = "raw"
    /\ Call("FiniteField::new", FiniteField_new(args.value, args.p))

FFAdd ==
    /\ args.kind = "elems"
    /\ Call("FiniteField::add", FiniteField_add(args.self, args.other))

FFSub ==
    /\ args.kind = "elems"
    /\ Call("FiniteField::sub", FiniteField_sub(args.self, args.other))

FFMul ==
    /\ args.kind = "elems"
    /\ Call("FiniteField::mul", FiniteField_mul(args.self, args.other))

FFDiv ==
    /\ args.kind = "elems"
    /\ Call("FiniteField::div", FiniteField_div(args.self, args.other))

NextFF == FFNew \/ FFAdd \/ FFSub \/ FFMul \/ FFDiv

SpecFF == InitFF /\ [][NextFF]_vars

(***************************************************************************)
(* Properties of the field layer.                                          *)
(***************************************************************************)
IsPrime(n) == n > 1 /\ \A d \in 2..(n - 1) : n % d # 0

FieldBinaryOps == {"FiniteField::add", "FiniteField::sub",
                   "FiniteField::mul", "FiniteField::div"}

\* the value the arithmetic of Z/pZ gives for the call in the state
ExpectedValue ==
    LET a == args.self.value
        b == args.other.value
        p == args.self.p
    IN CASE op = "FiniteField::add" -> (a + b) % p
         [] op = "FiniteField::sub" -> (a - b) % p
         [] op = "FiniteField::mul" -> (a * b) % p

\* C5: on two elements of the same field, add, sub and mul return Ok of the
\* element of that field whose value is (a + b) mod p, (a - b) mod p and
\* (a * b) mod p, a value in [0, p).
C5_AddSubMulReduced ==
    (/\ op \in {"FiniteField::add", "FiniteField::sub", "FiniteField::mul"}
     /\ args.self.p = args.other.p)
    => /\ res = Ok(FiniteField(ExpectedValue, args.self.p))
       /\ res.val.value \in 0..(args.self.p - 1)

\* a subtraction whose minuend is the smaller value has been made
C5_Witness ==
    /\ op = "FiniteField::sub"
    /\ args.self.p = args.other.p
    /\ args.self.value < args.other.value
    /\ res.tag = "Ok"
    /\ res.val.value = args.self.value + args.self.p - args.other.value

\* C6: over a prime p, div(a, b) with b # 0 returns Ok(q) with mul(q, b) = a;
\* over p = 7, 2 / 4 = 4.
C6_DivInvertsMul ==
    (/\ op = "FiniteField::div"
     /\ args.self.p = args.other.p
     /\ IsPrime(args.self.p)
     /\ args.other.value # 0)
    => /\ res.tag = "Ok"
       /\ res.val.p = args.self.p
       /\ FiniteField_mul(res.val, args.other) = Ok(args.self)
       /\ (args.self = FiniteField(2, 7) /\ args.other = FiniteField(4, 7)
              => res.val = FiniteField(4, 7))

\* the division 2 / 4 over p = 7 has returned 4
C6_Witness ==
    /\ op = "FiniteField::div"
    /\ args.self = FiniteField(2, 7)
    /\ args.other = FiniteField(4, 7)
    /\ res = Ok(FiniteField(4, 7))

\* C7: on operands whose moduli differ, add, sub, mul and div return the
\* field-mismatch error, whatever the values (a zero divisor included).
C7_FieldMismatch ==
    (op \in FieldBinaryOps /\ args.self.p # args.other.p)
    => res = Err(ErrFieldMismatch)

\* a division by a zero of another field has returned the mismatch error
C7_Witness ==
    /\ op = "FiniteField::div"
    /\ args.self.p # args.other.p
    /\ args.other.value = 0
    /\ res = Err(ErrFieldMismatch)

\* C8: div by the zero of the same field returns the divide-by-zero error,
\* also when the dividend is zero.
C8_DivideByZero ==
    (/\ op = "FiniteField::div"
     /\ args.self.p = args.other.p
     /\ args.other.value = 0)
    => res = Err(ErrDivideByZero)

\* 0 / 0 has returned the divide-by-zero error
C8_Witness ==
    /\ op = "FiniteField::div"
    /\ args.self.p = args.other.p
    /\ args.self.value = 0
    /\ args.other.value = 0
    /\ args.self.p > 1
    /\ res = Err(ErrDivideByZero)


(***************************************************************************)
(* elliptic_curve.rs                                                       *)
(***************************************************************************)
ErrNotOnCurve == "Point is not on the curve"
ErrResultNotOnCurve == "Resulting point is not on the curve"

\* enum Point { Coor(FiniteField, FiniteField), Identity }
Identity == [kind |-> "Identity"]
Coor(x, y) == [kind |-> "Coor", x |-> x, y |-> y]

\* struct EllipticCurve { a, b, p, g }
EllipticCurve(a, b, p, g) == [a |-> a, b |-> b, p |-> p, g |-> g]

\* y^2 = x^3 + ax + b mod p; a field error of any step is returned by `?`
is_on_curve(self, c) ==
    IF c.kind = "Identity" THEN Ok(Identity = Identity)
    ELSE Try(FiniteField_mul(c.y, c.y), LAMBDA y_squared :
         Try(FiniteField_mul(c.x, c.x), LAMBDA x_squared :
         Try(FiniteField_mul(x_squared, c.x), LAMBDA x_cubed :
         Try(FiniteField_mul(self.a, c.x), LAMBDA ax :
         Try(FiniteField_add(x_cubed, ax), LAMBDA x_cubed_plus_ax :
         Try(FiniteField_add(x_cubed_plus_ax, self.b), LAMBDA right_side :
         Ok(y_squared = right_side)))))))

\* x3 = s^2 - x1 - x2, y3 = s(x1 - x3) - y1, and the check of the result
compute_x3_y3(self, x1, y1, x2, s) ==
    Try(FiniteField_mul(s, s), LAMBDA s_squared :
    Try(FiniteField_add(x1, x2), LAMBDA x1_plus_x2 :
    Try(FiniteField_sub(s_squared, x1_plus_x2), LAMBDA x3 :
    Try(FiniteField_sub(x1, x3), LAMBDA x1_minus_x3 :
    Try(FiniteField_mul(s, x1_minus_x3), LAMBDA s_times_x1_minus_x3 :
    Try(FiniteField_sub(s_times_x1_minus_x3, y1), LAMBDA y3 :
    Try(is_on_curve(self, Coor(x3, y3)), LAMBDA on :
    IF ~on THEN Err(ErrResultNotOnCurve)
    ELSE Ok(<<x3, y3>>))))))))

\* the chord of add: s = (y2 - y1) / (x2 - x1), then x3 and y3
add_slope(self, x1, y1, x2, y2) ==
    Try(FiniteField_sub(y2, y1), LAMBDA slope_num :
    Try(FiniteField_sub(x2, x1), LAMBDA slope_den :
    Try(FiniteField_div(slope_num, slope_den), LAMBDA s :
    Try(compute_x3_y3(self, x1, y1, x2, s), LAMBDA x3_y3 :
    Ok(Coor(x3_y3[1], x3_y3[2]))))))

\* the arm of add for two affine points: Identity for a point and its
\* inverse, the chord otherwise; y1.add(y2) is made only when x1 == x2
add_coor(self, x1, y1, x2, y2) ==
    IF x1 = x2
    THEN Try(FiniteField_add(y1, y2), LAMBDA y1_plus_y2 :
         Try(FiniteField_new(0, self.p), LAMBDA zero :
         IF y1_plus_y2 = zero THEN Ok(Identity)
         ELSE add_slope(self, x1, y1, x2, y2)))
    ELSE add_slope(self, x1, y1, x2, y2)

\* an add whose first arm returns c, the identity, instead of d
EllipticCurve_add_returns_c(self, c, d) ==
    Try(is_on_curve(self, c), LAMBDA on_c :
    IF ~on_c THEN Err(ErrNotOnCurve)
    ELSE Try(is_on_curve(self, d), LAMBDA on_d :
         IF ~on_d THEN Err(ErrNotOnCurve)
         ELSE IF c.kind = "Identity" THEN Ok(c)
         ELSE IF d.kind = "Identity" THEN Ok(c)
         ELSE add_coor(self, c.x, c.y, d.x, d.y)))

\* an add that matches on Identity before it checks the operands
EllipticCurve_add_match_first(self, c, d) ==
    IF c.kind = "Identity" THEN Ok(d)
    ELSE IF d.kind = "Identity" THEN Ok(c)
    ELSE Try(is_on_curve(self, c), LAMBDA on_c :
         IF ~on_c THEN Err(ErrNotOnCurve)
         ELSE Try(is_on_curve(self, d), LAMBDA on_d :
              IF ~on_d THEN Err(ErrNotOnCurve)
              ELSE add_coor(self, c.x, c.y, d.x, d.y)))

EllipticCurve_add(self, c, d) ==
    Try(is_on_curve(self, c), LAMBDA on_c :
    IF ~on_c THEN Err(ErrNotOnCurve)
    ELSE Try(is_on_curve(self, d), LAMBDA on_d :
         IF ~on_d THEN Err(ErrNotOnCurve)
         ELSE IF c.kind = "Identity" THEN Ok(d)
         ELSE IF d.kind = "Identity" THEN Ok(c)
         ELSE add_coor(self, c.x, c.y, d.x, d.y)))

EllipticCurve_double(self, c) ==
    Try(is_on_curve(self, c), LAMBDA on_c :
    IF ~on_c THEN Err(ErrNotOnCurve)
    ELSE IF c.kind = "Identity" THEN Ok(Identity)
    ELSE Try(FiniteField_mul(c.x, c.x), LAMBDA x_squared :
         Try(FiniteField_new(3, self.p), LAMBDA three :
         Try(FiniteField_mul(x_squared, three), LAMBDA three_times_x_squared :
         Try(FiniteField_add(three_times_x_squared, self.a), LAMBDA slope_num :
         Try(FiniteField_new(2, self.p), LAMBDA two :
         Try(FiniteField_mul(c.y, two), LAMBDA two_y1 :
         Try(FiniteField_div(slope_num, two_y1), LAMBDA s :
         Try(compute_x3_y3(self, c.x, c.y, c.x, s), LAMBDA x3_y3 :
         Ok(Coor(x3_y3[1], x3_y3[2])))))))))))

\* a scalar_mul whose even branch halves the scalar without doubling the point
RECURSIVE scalar_mul_without_double(_, _, _)
scalar_mul_without_double(self, p, s) ==
    Try(is_on_curve(self, p), LAMBDA on_p :
    IF ~on_p THEN Err(ErrNotOnCurve)
    ELSE IF s = 0 THEN Ok(Identity)
    ELSE IF s = 1 THEN Ok(p)
    ELSE IF s % 2 = 1
         THEN Try(scalar_mul_without_double(self, p, s - 1), LAMBDA scalar_mul_result :
              EllipticCurve_add(self, p, scalar_mul_result))
    ELSE scalar_mul_without_double(self, p, s \div 2))

\* recursive double-and-add
RECURSIVE scalar_mul(_, _, _)
scalar_mul(self, p, s) ==
    Try(is_on_curve(self, p), LAMBDA on_p :
    IF ~on_p THEN Err(ErrNotOnCurve)
    ELSE IF s = 0 THEN Ok(Identity)
    ELSE IF s = 1 THEN Ok(p)
    ELSE IF s % 2 = 1
         THEN Try(scalar_mul(self, p, s - 1), LAMBDA scalar_mul_result :
              EllipticCurve_add(self, p, scalar_mul_result))
    ELSE Try(EllipticCurve_double(self, p), LAMBDA double_result :
         scalar_mul(self, double_result, s \div 2)))

(***************************************************************************)
(* The curve-layer specification: every call of add, double, is_on_curve   *)
(* and scalar_mul on the curve of the crate's tests, y^2 = x^3 + 2x + 2    *)
(* mod 17 with g = (5, 1), and on every non-singular curve over the primes *)
(* 5..MaxCurvePrime.  The points handed in are Identity, the pairs of      *)
(* elements of the curve's field (on the curve or not) and two points with *)
(* a coordinate of another field; scalars are 0..MaxScalar.                *)
(***************************************************************************)
\* the primes 5..MaxCurvePrime carry the small curves
MaxCurvePrime == 7
\* scalars of scalar_mul range over 0..MaxScalar
MaxScalar == 40

ToyP == 17
ToyA == 2
ToyB == 2
ToyGx == 5
ToyGy == 1

ToyCurve ==
    EllipticCurve(FiniteField(ToyA, ToyP), FiniteField(ToyB, ToyP), ToyP,
                  Coor(FiniteField(ToyGx, ToyP), FiniteField(ToyGy, ToyP)))

\* the affine points whose coordinates are elements of the field of modulus p
FieldPoints(p) ==
    {Coor(FiniteField(x, p), FiniteField(y, p)) : x \in 0..(p - 1), y \in 0..(p - 1)}

\* whether (x, y) satisfies y^2 = x^3 + ax + b over the integers mod p
Satisfies(a, b, p, x, y) == (y * y) % p = (x * x * x + a * x + b) % p

\* the non-singular curves over the field of modulus p, g their first point
CurvesOver(p) ==
    {EllipticCurve(FiniteField(ab[1], p), FiniteField(ab[2], p), p,
                   CHOOSE g \in FieldPoints(p) :
                       Satisfies(ab[1], ab[2], p, g.x.value, g.y.value)) :
        ab \in {c \in (0..(p - 1)) \X (0..(p - 1)) :
                   (4 * c[1] * c[1] * c[1] + 27 * c[2] * c[2]) % p # 0}}

SmallCurves == UNION {CurvesOver(p) : p \in {q \in 5..MaxCurvePrime : IsPrime(q)}}

Curves == {ToyCurve} \cup SmallCurves

\* g with its coordinates, or its y alone, moved to the field of modulus p + 1
ForeignPoints(self) ==
    {Coor(FiniteField(self.g.x.value, self.p + 1), FiniteField(self.g.y.value, self.p + 1)),
     Coor(self.g.x, FiniteField(self.g.y.value, self.p + 1))}

Points(self) == {Identity} \cup FieldPoints(self.p) \cup ForeignPoints(self)

\* the affine points of the curve
CurvePoints(self) ==
    {c \in FieldPoints(self.p) :
        Satisfies(self.a.value, self.b.value, self.p, c.x.value, c.y.value)}

\* the points one above a point of the curve that are not on the curve,
\* as (5, 2) is above g = (5, 1) in test_is_on_curve
OffCurveNeighbours(self) ==
    {Coor(c.x, FiniteField((c.y.value + 1) % self.p, self.p)) : c \in CurvePoints(self)}
        \ CurvePoints(self)

\* the operands of add and scalar_mul: the points of the curve, Identity, the points one
\* above a point of the curve and the points of another field
Operands(self) ==
    {Identity} \cup CurvePoints(self) \cup OffCurveNeighbours(self)
        \cup ForeignPoints(self)

InitEC ==
    /\ op = "none"
    /\ rng = <<>>
    /\ res = NoResult
    /\ stack = <<>>
    /\ calls = <<>>
    /\ \E self \in Curves :
          \/ args \in {[kind |-> "points", self |-> self, c |-> c, d |-> d] :
                          c \in Operands(self), d \in Operands(self)}
          \/ args \in {[kind |-> "point", self |-> self, c |-> c] :
                          c \in Points(self)}
          \/ args \in {[kind |-> "scalar", self |-> self, p |-> c, s |-> s] :
                          c \in Operands(self), s \in 0..MaxScalar}

ECAdd ==
    /\ args.kind = "points"
    /\ Call("EllipticCurve::add", EllipticCurve_add(args.self, args.c, args.d))

ECDouble ==
    /\ args.kind = "point"
    /\ Call("EllipticCurve::double", EllipticCurve_double(args.self, args.c))

ECIsOnCurve ==
    /\ args.kind = "point"
    /\ Call("EllipticCurve::is_on_curve", is_on_curve(args.self, args.c))

ECScalarMul ==
    /\ args.kind = "scalar"
    /\ Call("EllipticCurve::scalar_mul", scalar_mul(args.self, args.p, args.s))

NextEC == ECAdd \/ ECDouble \/ ECIsOnCurve \/ ECScalarMul

SpecEC == InitEC /\ [][NextEC]_vars

(***************************************************************************)
(* Properties of the curve layer.  The group law they refer to is stated   *)
(* over the integers mod p, apart from the field type of the crate.        *)
(***************************************************************************)
\* the order of g = (5, 1) on the curve of the tests: 19 g = Identity
ToyOrder == 19

\* c is Identity or has both coordinates in the field of the curve
InField(self, c) ==
    c.kind = "Identity" \/ (c.x.p = self.p /\ c.y.p = self.p)

\* c is Identity or an affine point of the curve's field on the curve
OnCurve(self, c) ==
    \/ c.kind = "Identity"
    \/ /\ c.x.p = self.p
       /\ c.y.p = self.p
       /\ Satisfies(self.a.value, self.b.value, self.p, c.x.value, c.y.value)

\* c is an affine point of the curve's field that is not on the curve
OffCurve(self, c) == InField(self, c) /\ ~OnCurve(self, c)

Inverse(x, p) == CHOOSE i \in 1..(p - 1) : (i * x) % p = 1

\* the chord-and-tangent sum of two points of the curve
GroupLaw(self, P, Q) ==
    IF P.kind = "Identity" THEN Q
    ELSE IF Q.kind = "Identity" THEN P
    ELSE LET p == self.p
             x1 == P.x.value
             y1 == P.y.value
             x2 == Q.x.value
             y2 == Q.y.value
         IN IF x1 = x2 /\ (y1 + y2) % p = 0 THEN Identity
            ELSE LET lambda == IF x1 = x2
                               THEN ((3 * x1 * x1 + self.a.value) * Inverse((2 * y1) % p, p)) % p
                               ELSE ((y2 - y1) * Inverse((x2 - x1) % p, p)) % p
                     x3 == (lambda * lambda - x1 - x2) % p
                     y3 == (lambda * (x1 - x3) - y1) % p
                 IN Coor(FiniteField(x3, p), FiniteField(y3, p))

\* P added to itself k times
RECURSIVE Multiple(_, _, _)
Multiple(self, P, k) ==
    IF k = 0 THEN Identity ELSE GroupLaw(self, P, Multiple(self, P, k - 1))

ToyPoint(x, y) == Coor(FiniteField(x, ToyP), FiniteField(y, ToyP))

\* the multiples of g = (5, 1) that test_scalar_mul lists
ToyMultiples ==
    (1 :> ToyPoint(5, 1)) @@ (2 :> ToyPoint(6, 3)) @@ (3 :> ToyPoint(10, 6)) @@
    (4 :> ToyPoint(3, 1)) @@ (5 :> ToyPoint(9, 16)) @@ (6 :> ToyPoint(16, 13)) @@
    (7 :> ToyPoint(0, 6)) @@ (8 :> ToyPoint(13, 7)) @@ (9 :> ToyPoint(7, 6)) @@
    (10 :> ToyPoint(7, 11)) @@ (18 :> ToyPoint(5, 16)) @@ (19 :> Identity)

\* C2: on the curve of the tests, scalar_mul(P, k) for a point P of the curve
\* and 0 <= k <= 19 returns Ok of P added to itself k times: Identity for
\* k = 0, P for k = 1, double(P) for k = 2, and for g the listed multiples.
C2_ScalarMulIsRepeatedAddition ==
    (/\ op = "EllipticCurve::scalar_mul"
     /\ args.self = ToyCurve
     /\ OnCurve(args.self, args.p)
     /\ args.s <= ToyOrder)
    => /\ res = Ok(Multiple(args.self, args.p, args.s))
       /\ (args.s = 0 => res = Ok(Identity))
       /\ (args.s = 1 => res = Ok(args.p))
       /\ (args.s = 2 => res = EllipticCurve_double(args.self, args.p))
       /\ (args.p = ToyCurve.g /\ args.s \in DOMAIN ToyMultiples
              => res = Ok(ToyMultiples[args.s]))

\* scalar_mul(g, 18) has returned (5, 16)
C2_Witness ==
    /\ op = "EllipticCurve::scalar_mul"
    /\ args.self = ToyCurve
    /\ args.p = ToyCurve.g
    /\ args.s = 18
    /\ res = Ok(ToyPoint(5, 16))

\* C3: scalar_mul(P, k) of a point P of the curve returns a point for every
\* k >= 0, and the point is on the curve.
C3_ScalarMulStaysOnCurve ==
    (/\ op = "EllipticCurve::scalar_mul"
     /\ OnCurve(args.self, args.p))
    => /\ res.tag = "Ok"
       /\ is_on_curve(args.self, res.val) = Ok(TRUE)

\* C9: add is commutative on the points of the curve: add(P, Q) and
\* add(Q, P) return the same point or the same error.
C9_AddCommutes ==
    (/\ op = "EllipticCurve::add"
     /\ OnCurve(args.self, args.c)
     /\ OnCurve(args.self, args.d))
    => res = EllipticCurve_add(args.self, args.d, args.c)

\* add of two affine points with different x has returned their sum
C9_Witness ==
    /\ op = "EllipticCurve::add"
    /\ OnCurve(args.self, args.c)
    /\ OnCurve(args.self, args.d)
    /\ args.c.kind = "Coor"
    /\ args.d.kind = "Coor"
    /\ args.c.x # args.d.x
    /\ res = Ok(GroupLaw(args.self, args.d, args.c))

\* C10: when an operand of add is an affine point off the curve, add returns
\* the off-curve error, whatever the other operand is.
C10_AddRejectsOffCurve ==
    (/\ op = "EllipticCurve::add"
     /\ InField(args.self, args.c)
     /\ InField(args.self, args.d)
     /\ (OffCurve(args.self, args.c) \/ OffCurve(args.self, args.d)))
    => res = Err(ErrNotOnCurve)

\* add(Identity, D) with D off the curve has returned the off-curve error
C10_Witness ==
    /\ op = "EllipticCurve::add"
    /\ args.c = Identity
    /\ OffCurve(args.self, args.d)
    /\ res = Err(ErrNotOnCurve)

(***************************************************************************)
(* ecdsa.rs                                                                *)
(***************************************************************************)
ErrInvalidRPoint == "Invalid r_point generated"
ErrInvalidVerifyPoint == "Invalid point generated in verification"
PanicScalarMulFailed == "Scalar multiplication failed"
PanicNotValid == "The signature should be valid."

\* struct EcdsaKeyPair { private_key, public_key }
EcdsaKeyPair(private_key, public_key) ==
    [private_key |-> private_key, public_key |-> public_key]

\* struct EcdsaSignature { r, s }
EcdsaSignature(r, s) == [r |-> r, s |-> s]

\* a byte string enters the crate only through its SHA-256 digest read as a
\* big-endian integer; a message is modelled by that integer
Message(digest) == [digest |-> digest]

hash_message(message) == message.digest

\* Result::unwrap: an Err aborts the thread with the error as its message
unwrap(result) ==
    Let(result, LAMBDA r : IF r.tag = "Err" THEN Panic(r.val) ELSE r)

\* Result::expect: an Err aborts the thread with the given message
expect(result, msg) ==
    Let(result, LAMBDA r : IF r.tag = "Err" THEN Panic(msg) ELSE r)

\* the values rng.gen_biguint_below(bound) may return
gen_biguint_below(bound) == 0..(bound - 1)

\* the values generate_nonzero_random may return: a draw below p that is not 0
generate_nonzero_random(p) == gen_biguint_below(p) \ {0}

\* EcdsaKeyPair::generate, private_key being the value drawn from OsRng;
\* expect aborts when scalar_mul returns an error
EcdsaKeyPair_generate(curve, private_key) ==
    Try(expect(scalar_mul(curve, curve.g, private_key), PanicScalarMulFailed),
        LAMBDA public_key :
    Ok(EcdsaKeyPair(private_key, public_key)))

\* s = (hash + r * private_key) / k in the field of modulus p
calculate_s_field(hash_field, r_field, private_key_field, k, p) ==
    Try(FiniteField_new(k, p), LAMBDA k_field :
    Try(FiniteField_mul(r_field, private_key_field), LAMBDA r_times_key :
    Try(FiniteField_add(hash_field, r_times_key), LAMBDA num :
    FiniteField_div(num, k_field))))

\* EcdsaSignature::sign, k being the nonce drawn from OsRng
sign(curve, message, private_key, k) ==
    Let(hash_message(message), LAMBDA hash :
    Try(scalar_mul(curve, curve.g, k), LAMBDA r_point :
    IF r_point.kind = "Coor"
    THEN Try(FiniteField_new(get_value(r_point.x), curve.p), LAMBDA r_field :
         Try(FiniteField_new(private_key, curve.p), LAMBDA private_key_field :
         Try(FiniteField_new(hash, curve.p), LAMBDA hash_field :
         Try(calculate_s_field(hash_field, r_field, private_key_field, k, curve.p),
             LAMBDA s_field :
         Ok(EcdsaSignature(get_value(r_field), get_value(s_field)))))))
    ELSE Err(ErrInvalidRPoint)))

\* EcdsaSignature::verify
verify(curve, message, public_key, signature) ==
    Let(hash_message(message), LAMBDA hash :
    Try(FiniteField_new(hash, curve.p), LAMBDA hash_field :
    Try(FiniteField_new(signature.s, curve.p), LAMBDA signature_s_field :
    Try(FiniteField_new(1, curve.p), LAMBDA one_field :
    Try(FiniteField_div(one_field, signature_s_field), LAMBDA w :
    Try(FiniteField_mul(hash_field, w), LAMBDA u1 :
    Try(FiniteField_new(signature.r, curve.p), LAMBDA r_field :
    Try(FiniteField_mul(r_field, w), LAMBDA u2 :
    Try(scalar_mul(curve, curve.g, get_value(u1)), LAMBDA u1_point :
    Try(scalar_mul(curve, public_key, get_value(u2)), LAMBDA u2_point :
    Try(EllipticCurve_add(curve, u1_point, u2_point), LAMBDA p :
    IF p.kind = "Coor"
    THEN Try(FiniteField_new(signature.r, curve.p), LAMBDA r_again :
         Ok(p.x = r_again))
    ELSE Err(ErrInvalidVerifyPoint))))))))))))

\* tests::test_verify on a curve and a message: generate a key pair, sign,
\* verify, and assert that the signature is valid
test_verify(curve, message, private_key, k) ==
    Try(EcdsaKeyPair_generate(curve, private_key), LAMBDA key_pair :
    Try(unwrap(sign(curve, message, key_pair.private_key, k)), LAMBDA signature :
    Try(unwrap(verify(curve, message, key_pair.public_key, signature)),
        LAMBDA is_valid :
    IF ~is_valid THEN Panic(PanicNotValid)
    ELSE Ok([key_pair |-> key_pair, signature |-> signature,
             is_valid |-> is_valid]))))

(***************************************************************************)
(* The signature-layer specification: every call of generate, sign and     *)
(* verify, and every run of test_verify, on the curve of the crate's       *)
(* curve tests.  Digests, private keys and the r and s of a signature are  *)
(* the integers 0..MaxInteger, of which those from 17 on are not below p;  *)
(* public keys handed to verify are those of the private keys 0..MaxKey    *)
(* (Identity for 0) and a point off the curve.  The draws from OsRng are   *)
(* every value the generator may return.                                   *)
(***************************************************************************)
\* digests, private keys, r and s range over 0..MaxInteger
MaxInteger == 17
\* verify is handed the public keys of the private keys 0..MaxKey
MaxKey == 4

EcdsaCurves == {ToyCurve}

\* the public keys of the private keys 0..MaxKey, and the point one above g
PublicKeys(curve) ==
    {scalar_mul(curve, curve.g, d).val : d \in 0..MaxKey}
        \cup {Coor(curve.g.x, FiniteField((curve.g.y.value + 1) % curve.p, curve.p))}

InitECDSA ==
    /\ op = "none"
    /\ rng = <<>>
    /\ res = NoResult
    /\ stack = <<>>
    /\ calls = <<>>
    /\ \E curve \in EcdsaCurves :
          \/ args = [kind |-> "generate", curve |-> curve]
          \/ args \in {[kind |-> "sign", curve |-> curve, message |-> Message(e),
                        private_key |-> d] :
                          e \in 0..MaxInteger, d \in 0..MaxInteger}
          \/ args \in {[kind |-> "verify", curve |-> curve, message |-> Message(e),
                        public_key |-> Q, signature |-> EcdsaSignature(r, s)] :
                          e \in 0..MaxInteger, Q \in PublicKeys(curve),
                          r \in 0..MaxInteger, s \in 0..MaxInteger}
          \/ args \in {[kind |-> "test", curve |-> curve, message |-> Message(e)] :
                          e \in 0..MaxInteger}

Generate ==
    /\ args.kind = "generate"
    /\ op = "none"
    /\ \E private_key \in gen_biguint_below(args.curve.p) :
          /\ rng' = <<private_key>>
          /\ res' = EcdsaKeyPair_generate(args.curve, private_key)
    /\ op' = "EcdsaKeyPair::generate"
    /\ UNCHANGED <<args, stack, calls>>

Sign ==
    /\ args.kind = "sign"
    /\ op = "none"
    /\ \E k \in generate_nonzero_random(args.curve.p) :
          /\ rng' = <<k>>
          /\ res' = sign(args.curve, args.message, args.private_key, k)
    /\ op' = "EcdsaSignature::sign"
    /\ UNCHANGED <<args, stack, calls>>

Verify ==
    /\ args.kind = "verify"
    /\ Call("EcdsaSignature::verify",
            verify(args.curve, args.message, args.public_key, args.signature))

TestVerify ==
    /\ args.kind = "test"
    /\ op = "none"
    /\ \E private_key \in gen_biguint_below(args.curve.p),
          k \in generate_nonzero_random(args.curve.p) :
          /\ rng' = <<private_key, k>>
          /\ res' = test_verify(args.curve, args.message, private_key, k)
    /\ op' = "tests::test_verify"
    /\ UNCHANGED <<args, stack, calls>>

NextECDSA == Generate \/ Sign \/ Verify \/ TestVerify

SpecECDSA == InitECDSA /\ [][NextECDSA]_vars

(***************************************************************************)
(* Properties of the signature layer.                                      *)
(***************************************************************************)
\* C1: the ECDSA round trip: for every private key d drawn below p, its
\* public key Q = d g, every message with a digest below p and every nonce
\* k drawn from [1, p), sign returns a signature and verify of the message,
\* Q and that signature returns true, so that test_verify passes.
C1_RoundTrip ==
    (/\ op = "tests::test_verify"
     /\ hash_message(args.message) < args.curve.p)
    => /\ res.tag = "Ok"
       /\ res.val.is_valid

\* C4: verify does not panic: on a public key of the curve it returns
\* Ok(bool) or Err for every digest and every r and s, those not below p
\* included.
C4_VerifyNeverPanics ==
    (/\ op = "EcdsaSignature::verify"
     /\ OnCurve(args.curve, args.public_key))
    => res.tag \in {"Ok", "Err"}

\* the point P = u1 g + u2 Q that verify computes before it compares x to r
verify_point(curve, message, public_key, signature) ==
    Let(hash_message(message), LAMBDA hash :
    Try(FiniteField_new(hash, curve.p), LAMBDA hash_field :
    Try(FiniteField_new(signature.s, curve.p), LAMBDA signature_s_field :
    Try(FiniteField_new(1, curve.p), LAMBDA one_field :
    Try(FiniteField_div(one_field, signature_s_field), LAMBDA w :
    Try(FiniteField_mul(hash_field, w), LAMBDA u1 :
    Try(FiniteField_new(signature.r, curve.p), LAMBDA r_field :
    Try(FiniteField_mul(r_field, w), LAMBDA u2 :
    Try(scalar_mul(curve, curve.g, get_value(u1)), LAMBDA u1_point :
    Try(scalar_mul(curve, public_key, get_value(u2)), LAMBDA u2_point :
    EllipticCurve_add(curve, u1_point, u2_point)))))))))))

\* C11: when the point P = u1 g + u2 Q of verify is Identity, verify
\* returns Ok(false) and not an error.
C11_IdentityGivesFalse ==
    (/\ op = "EcdsaSignature::verify"
     /\ verify_point(args.curve, args.message, args.public_key, args.signature)
            = Ok(Identity))
    => res = Ok(FALSE)

\* C12: sign never returns a signature whose s is 0.
C12_SignNeverReturnsZeroS ==
    (/\ op = "EcdsaSignature::sign"
     /\ res.tag = "Ok")
    => res.val.s # 0

(***************************************************************************)
(* add and scalar_mul run step by step.  A frame is one call in progress:  *)
(* the function, its two arguments after self, the place it has reached    *)
(* and, once a call it made has returned, what that call returned.  The    *)
(* last frame of stack is the running one.  scalar_mul stops where it      *)
(* calls itself or add, add where it calls FiniteField::div; is_on_curve,  *)
(* double, compute_x3_y3 and the other field operations run within a step. *)
(***************************************************************************)
Frame(fn, a, b) ==
    [fn |-> fn, a |-> a, b |-> b, pc |-> "entry", ret |-> NoResult]

\* a function that has not returned yet but reached a call it makes
Reached(place, callee_args) == [tag |-> place, val |-> callee_args]

\* an add that takes x1 == x2 alone for the inverse case
add_entry_tests_x_only(self, c, d) ==
    Try(is_on_curve(self, c), LAMBDA on_c :
    IF ~on_c THEN Err(ErrNotOnCurve)
    ELSE Try(is_on_curve(self, d), LAMBDA on_d :
         IF ~on_d THEN Err(ErrNotOnCurve)
         ELSE IF c.kind = "Identity" THEN Ok(d)
         ELSE IF d.kind = "Identity" THEN Ok(c)
         ELSE IF c.x = d.x THEN Ok(Identity)
         ELSE Try(FiniteField_sub(d.y, c.y), LAMBDA slope_num :
              Try(FiniteField_sub(d.x, c.x), LAMBDA slope_den :
              Reached("div", <<slope_num, slope_den>>)))))

\* an add that never takes the inverse case
add_entry_without_inverse_case(self, c, d) ==
    Try(is_on_curve(self, c), LAMBDA on_c :
    IF ~on_c THEN Err(ErrNotOnCurve)
    ELSE Try(is_on_curve(self, d), LAMBDA on_d :
         IF ~on_d THEN Err(ErrNotOnCurve)
         ELSE IF c.kind = "Identity" THEN Ok(d)
         ELSE IF d.kind = "Identity" THEN Ok(c)
         ELSE Try(FiniteField_sub(d.y, c.y), LAMBDA slope_num :
              Try(FiniteField_sub(d.x, c.x), LAMBDA slope_den :
              Reached("div", <<slope_num, slope_den>>)))))

\* add up to its division: what it returns without dividing (an off-curve
\* operand, an Identity operand, the inverse case), or the numerator and
\* the denominator of the slope it is about to divide
add_entry(self, c, d) ==
    Try(is_on_curve(self, c), LAMBDA on_c :
    IF ~on_c THEN Err(ErrNotOnCurve)
    ELSE Try(is_on_curve(self, d), LAMBDA on_d :
         IF ~on_d THEN Err(ErrNotOnCurve)
         ELSE IF c.kind = "Identity" THEN Ok(d)
         ELSE IF d.kind = "Identity" THEN Ok(c)
         ELSE Try(IF c.x = d.x
                  THEN Try(FiniteField_add(c.y, d.y), LAMBDA y1_plus_y2 :
                       Try(FiniteField_new(0, self.p), LAMBDA zero :
                       Ok(y1_plus_y2 = zero)))
                  ELSE Ok(FALSE), LAMBDA inverse :
              IF inverse THEN Ok(Identity)
              ELSE Try(FiniteField_sub(d.y, c.y), LAMBDA slope_num :
                   Try(FiniteField_sub(d.x, c.x), LAMBDA slope_den :
                   Reached("div", <<slope_num, slope_den>>))))))

\* add from its division on: s = slope_num / slope_den, then x3 and y3
add_divide(self, c, slope_num, slope_den, d) ==
    Try(FiniteField_div(slope_num, slope_den), LAMBDA s :
    Try(compute_x3_y3(self, c.x, c.y, d.x, s), LAMBDA x3_y3 :
    Ok(Coor(x3_y3[1], x3_y3[2]))))

\* a scalar_mul whose even branch takes 2 off the scalar instead of halving it
scalar_mul_entry_even_minus_2(self, p, s) ==
    Try(is_on_curve(self, p), LAMBDA on_p :
    IF ~on_p THEN Err(ErrNotOnCurve)
    ELSE IF s = 0 THEN Ok(Identity)
    ELSE IF s = 1 THEN Ok(p)
    ELSE IF s % 2 = 1 THEN Reached("odd", <<p, s - 1>>)
    ELSE Try(EllipticCurve_double(self, p), LAMBDA double_result :
         Reached("even", <<double_result, s - 2>>)))

\* scalar_mul up to its recursive call: what it returns without recursing,
\* or the arguments of the call it is about to make
scalar_mul_entry(self, p, s) ==
    Try(is_on_curve(self, p), LAMBDA on_p :
    IF ~on_p THEN Err(ErrNotOnCurve)
    ELSE IF s = 0 THEN Ok(Identity)
    ELSE IF s = 1 THEN Ok(p)
    ELSE IF s % 2 = 1 THEN Reached("odd", <<p, s - 1>>)
    ELSE Try(EllipticCurve_double(self, p), LAMBDA double_result :
         Reached("even", <<double_result, s \div 2>>)))

\* the running frame
Top == stack[Len(stack)]

Running(fn, pc) ==
    /\ op = "none"
    /\ stack # <<>>
    /\ Top.fn = fn
    /\ Top.pc = pc

\* the running call returns: to its caller, or to the caller of the crate
Return(outcome) ==
    IF Len(stack) = 1
    THEN /\ stack' = <<>>
         /\ op' = Top.fn
         /\ res' = outcome
    ELSE /\ stack' = [SubSeq(stack, 1, Len(stack) - 1)
                         EXCEPT ![Len(stack) - 1].ret = outcome]
         /\ UNCHANGED <<op, res>>

\* the running call, now at pc, calls callee
Push(pc, callee) ==
    /\ stack' = [stack EXCEPT ![Len(stack)].pc = pc,
                              ![Len(stack)].ret = NoResult] \o <<callee>>
    /\ UNCHANGED <<op, res>>

\* the call recorded in calls
CallOf(fn, a, b) == [fn |-> fn, a |-> a, b |-> b]

\* the stepped runs are made on the curve of the tests and on the curves
\* over the field of 5 elements, which have points with y = 0
SteppedCurves == {ToyCurve} \cup CurvesOver(5)

InitSteps ==
    /\ op = "none"
    /\ rng = <<>>
    /\ res = NoResult
    /\ stack = <<>>
    /\ calls = <<>>
    /\ \E self \in SteppedCurves :
          \/ args \in {[kind |-> "points", self |-> self, c |-> c, d |-> d] :
                          c \in Operands(self), d \in Operands(self)}
          \/ args \in {[kind |-> "scalar", self |-> self, p |-> c, s |-> s] :
                          c \in Operands(self), s \in 0..MaxScalar}

\* the caller of the crate calls add
CallAdd ==
    /\ args.kind = "points"
    /\ op = "none"
    /\ stack = <<>>
    /\ stack' = <<Frame("EllipticCurve::add", args.c, args.d)>>
    /\ UNCHANGED <<op, args, rng, res, calls>>

\* the caller of the crate calls scalar_mul
CallScalarMul ==
    /\ args.kind = "scalar"
    /\ op = "none"
    /\ stack = <<>>
    /\ stack' = <<Frame("EllipticCurve::scalar_mul", args.p, args.s)>>
    /\ UNCHANGED <<op, args, rng, res, calls>>

\* add checks its operands, matches on them and tests the inverse case
AddEntry ==
    /\ Running("EllipticCurve::add", "entry")
    /\ LET reached == add_entry(args.self, Top.a, Top.b)
       IN  IF reached.tag = "div"
           THEN /\ stack' = [stack EXCEPT ![Len(stack)].pc = "div"]
                /\ UNCHANGED <<op, res>>
           ELSE Return(reached)
    /\ UNCHANGED <<args, rng, calls>>

\* add divides slope_num by slope_den and computes the result
AddDivide ==
    /\ Running("EllipticCurve::add", "div")
    /\ LET slope == add_entry(args.self, Top.a, Top.b).val
       IN  /\ calls' = Append(calls, CallOf("FiniteField::div", slope[1], slope[2]))
           /\ Return(add_divide(args.self, Top.a, slope[1], slope[2], Top.b))
    /\ UNCHANGED <<args, rng>>

\* scalar_mul checks p and s and, for s > 1, calls itself: on (p, s - 1)
\* for an odd s, on (double(p), s / 2) for an even s
ScalarMulEntry ==
    /\ Running("EllipticCurve::scalar_mul", "entry")
    /\ LET reached == scalar_mul_entry(args.self, Top.a, Top.b)
       IN  IF reached.tag \in {"odd", "even"}
           THEN Push(reached.tag,
                     Frame("EllipticCurve::scalar_mul", reached.val[1], reached.val[2]))
           ELSE Return(reached)
    /\ UNCHANGED <<args, rng, calls>>

\* odd s: the recursive call has returned; its error is passed on, its
\* point is added to p
ScalarMulOdd ==
    /\ Running("EllipticCurve::scalar_mul", "odd")
    /\ IF Top.ret.tag # "Ok"
       THEN /\ Return(Top.ret)
            /\ UNCHANGED calls
       ELSE /\ Push("add", Frame("EllipticCurve::add", Top.a, Top.ret.val))
            /\ calls' = Append(calls, CallOf("EllipticCurve::add", Top.a, Top.ret.val))
    /\ UNCHANGED <<args, rng>>

\* odd s: scalar_mul returns what add returned
ScalarMulAdded ==
    /\ Running("EllipticCurve::scalar_mul", "add")
    /\ Return(Top.ret)
    /\ UNCHANGED <<args, rng, calls>>

\* even s: scalar_mul returns what the recursive call returned
ScalarMulEven ==
    /\ Running("EllipticCurve::scalar_mul", "even")
    /\ Return(Top.ret)
    /\ UNCHANGED <<args, rng, calls>>

NextSteps ==
    \/ CallAdd
    \/ CallScalarMul
    \/ AddEntry
    \/ AddDivide
    \/ ScalarMulEntry
    \/ ScalarMulOdd
    \/ ScalarMulAdded
    \/ ScalarMulEven

SpecSteps == InitSteps /\ [][NextSteps]_vars

\* the program runs on until the call returns
SpecStepsFair == SpecSteps /\ WF_vars(NextSteps)

\* the stepped run of a call ends as the call does when taken as a whole
SteppedAsWhole ==
    /\ op = "EllipticCurve::add" => res = EllipticCurve_add(args.self, args.c, args.d)
    /\ op = "EllipticCurve::scalar_mul" => res = scalar_mul(args.self, args.p, args.s)

(***************************************************************************)
(* Properties of the stepped runs.                                         *)
(***************************************************************************)
\* c and d are affine points of the curve with x1 = x2 and y1 + y2 = 0 mod p
Opposite(self, c, d) ==
    /\ c.kind = "Coor"
    /\ d.kind = "Coor"
    /\ OnCurve(self, c)
    /\ OnCurve(self, d)
    /\ c.x.value = d.x.value
    /\ (c.y.value + d.y.value) % self.p = 0

\* the calls of fn made so far
CallsOf(fn) == {i \in DOMAIN calls : calls[i].fn = fn}

\* C13: add of an affine point of the curve and its inverse (the point
\* itself when y = 0) makes no field division and returns Identity.
C13_InverseCaseWithoutDivision ==
    (/\ args.kind = "points"
     /\ Opposite(args.self, args.c, args.d))
    => /\ CallsOf("FiniteField::div") = {}
       /\ op = "EllipticCurve::add" => res = Ok(Identity)

\* add(C, C) with y = 0 has returned Identity without a division
C13_Witness ==
    /\ op = "EllipticCurve::add"
    /\ Opposite(args.self, args.c, args.d)
    /\ args.c = args.d
    /\ res = Ok(Identity)
    /\ calls = <<>>

\* C14: during scalar_mul(P, k) on a point of the curve, no call of add
\* has two equal affine arguments.
C14_NoAddOfEqualPoints ==
    (/\ args.kind = "scalar"
     /\ OnCurve(args.self, args.p))
    => \A i \in CallsOf("EllipticCurve::add") :
          ~(calls[i].a.kind = "Coor" /\ calls[i].a = calls[i].b)

\* the calls of scalar_mul in progress below the first one
Depth == Cardinality({i \in DOMAIN stack : stack[i].fn = "EllipticCurve::scalar_mul"}) - 1

\* the largest e with 2^e <= k, for k >= 1
RECURSIVE FloorLog2(_)
FloorLog2(k) == IF k <= 1 THEN 0 ELSE 1 + FloorLog2(k \div 2)

\* the least e with k <= 2^e, for k >= 1
CeilLog2(k) == IF k <= 1 THEN 0 ELSE 1 + FloorLog2(k - 1)

\* C15: scalar_mul(P, k) returns for every k, and for k >= 2 it is never
\* more than 2 * floor(log2 k) recursive calls deep.
C15_ReturnsWithinTwiceFloorLog2 ==
    /\ [](args.kind = "scalar" /\ args.s >= 2 /\ stack # <<>>
             => Depth <= 2 * FloorLog2(args.s))
    /\ (args.kind = "scalar" ~> op = "EllipticCurve::scalar_mul")

\* C15 as stated: scalar_mul(P, k) returns for every k, and for k >= 2 it
\* is never more than ceil(log2 k) recursive calls deep.
C15_ReturnsWithinCeilLog2 ==
    /\ [](args.kind = "scalar" /\ args.s >= 2 /\ stack # <<>>
             => Depth <= CeilLog2(args.s))
    /\ (args.kind = "scalar" ~> op = "EllipticCurve::scalar_mul")

\* a scalar_mul is 2 * floor(log2 k) calls deep, which is more than
\* ceil(log2 k)
C15_Witness ==
    /\ args.kind = "scalar"
    /\ args.s >= 2
    /\ stack # <<>>
    /\ Depth = 2 * FloorLog2(args.s)
    /\ Depth > CeilLog2(args.s)

\* C16: add(P, P) for an affine point P of the curve with y # 0 divides by
\* the slope denominator 0 and returns the divide-by-zero error, unlike
\* double(P); so an Ok of add on two affine points of the curve comes from
\* distinct x coordinates or from the inverse case.
C16_AddOfEqualPointsFails ==
    (/\ op = "EllipticCurve::add"
     /\ args.c.kind = "Coor"
     /\ args.d.kind = "Coor"
     /\ OnCurve(args.self, args.c)
     /\ OnCurve(args.self, args.d))
    => /\ (args.c = args.d /\ args.c.y.value # 0)
          => /\ res = Err(ErrDivideByZero)
             /\ Len(calls) = 1
             /\ calls[1].fn = "FiniteField::div"
             /\ calls[1].b = FiniteField(0, args.self.p)
             /\ res # EllipticCurve_double(args.self, args.c)
       /\ res.tag = "Ok"
          => \/ args.c.x # args.d.x
             \/ Opposite(args.self, args.c, args.d)

\* add(g, g) on the curve of the tests has returned the divide-by-zero
\* error, and double(g) a point
C16_Witness ==
    /\ op = "EllipticCurve::add"
    /\ args.c = ToyCurve.g
    /\ args.d = ToyCurve.g
    /\ res = Err(ErrDivideByZero)
    /\ EllipticCurve_double(args.self, args.c).tag = "Ok"

====
